---- MODULE Spec2Model ----
\* Real-time messaging gateway of musician-platform: the WebSocket endpoint
\* (routes/websocket.py), the connection registry (websocket_manager.py) and the
\* REST message routes (routes/messages.py), as a state machine whose steps are the
\* code between two suspension points (await) of a task.
EXTENDS Integers, Sequences, FiniteSets, TLC

\* ---------------------------------------------------------------- bounds
\* Inbound WebSocket frames received over a whole run.
MaxFrames == 1
\* Inbound frames of a run with a single connection.
MaxFramesOne == 2
\* Messages the store can hold (the one of Init included).
MaxMsgs == 2
\* REST requests issued over a whole run.
MaxRest == 2
\* REST requests issued beside the WebSocket sessions.
MaxReads == 1
\* Clients that go away over a whole run.
MaxDrops == 1
\* Store calls that raise over a whole run.
MaxFaults == 1
MaxBus == 2
\* Threads the store can hold (the two of Init included).
MaxThreads == 4

\* ---------------------------------------------------------------- universe
None == "None"
Users == {"U1", "U2", "U3"}
Conns == {"c1", "c2", "c3"}
Rests == {"r1", "r2"}
Instances == {"A", "B"}
Contents == {"hi", "yo"}

\* Rows of the users table: (id, is_active).
UserRows == {<<"U1", TRUE>>, <<"U2", TRUE>>, <<"U3", TRUE>>, <<"Banned", FALSE>>}

\* Tokens a client can present. "decodes" is whether security.decode_token
\* returns a payload; "type" and "sub" are the payload's fields.
Tokens ==
  {[decodes |-> TRUE, type |-> "access", sub |-> u] : u \in Users}
  \cup {[decodes |-> FALSE, type |-> None, sub |-> None],
        [decodes |-> TRUE, type |-> "refresh", sub |-> "U1"],
        [decodes |-> TRUE, type |-> "access", sub |-> None],
        [decodes |-> TRUE, type |-> "access", sub |-> "Ghost"],
        [decodes |-> TRUE, type |-> "access", sub |-> "Banned"]}

VARIABLES
  pc,                  \* position of each connection's task in websocket_endpoint
  user_id,             \* websocket_endpoint local user_id (None before authentication)
  live,                \* whether the client side of the socket is still there
  closeCode,           \* close code sent by the server (0: none)
  inst,                \* the process (gateway instance) that serves the connection
  active_connections,  \* ConnectionManager.active_connections, per instance
  received,            \* frames written to each connection, in order
  new_message,         \* websocket_endpoint local new_message (its id; 0: unbound)
  participant_ids,     \* websocket_endpoint local participant_ids
  bframe,              \* the frame being broadcast by broadcast_to_thread
  bq,                  \* users broadcast_to_thread has still to visit
  iter,                \* the set iteration of send_personal_message in progress
  cur,                 \* websocket_endpoint local message_data while it is handled
  rb,                  \* local read_by_list waiting for db.commit()
  direct_messages,     \* table direct_messages, id = index
  thread_participants, \* table thread_participants: rows <<thread_id, user_id>>
  threads,             \* table direct_message_threads: ids
  updated_at,          \* direct_message_threads.updated_at, a logical clock per thread
  clock,               \* the logical clock datetime.now reads
  rest,                \* REST requests in progress, at their await
  response,            \* the last response of each REST worker
  budget,              \* inbound frames, client losses and REST requests still to come
  registered,          \* history: the connection was added to the registry
  unregs,              \* history: times the connection was removed from the registry
  bus,                 \* payloads published to the Redis channel "messages", not yet consumed
  redis,               \* per instance: whether initialize() reached the Redis server
  failed,              \* history: per connection, the store call that raised in its task
  badToken,            \* history: the connection presented a token that must be rejected
  lastin,              \* history: the connection and inbound frame the last step took
  pub                  \* history: the last broadcast_to_thread call, as it started

vars == <<pc, user_id, live, closeCode, inst, active_connections, received,
          new_message, participant_ids, bframe, bq, iter, cur, rb,
          direct_messages, thread_participants, threads, updated_at, clock,
          rest, response, budget, bus, redis, failed, registered, unregs, badToken, lastin, pub>>

\* What a connection is once authenticated, and the run's budgets.
sessVars == <<user_id, closeCode, inst, registered, badToken>>
localVars == <<new_message, participant_ids, rb>>
storeVars == <<direct_messages, thread_participants, threads, updated_at, clock>>
busVars == <<bus, redis, failed>>
restVars == <<rest, response, busVars>>

\* ---------------------------------------------------------------- values
Threads == {"T1", "T2"}
\* Thread ids (uuid4 in models.py), named in the order the rows are created.
ThreadNames == <<"T1", "T2", "T3", "T4", "T5", "T6">>
ThreadIds == {ThreadNames[k] : k \in DOMAIN ThreadNames}
ThreadNo(t) == CHOOSE k \in DOMAIN ThreadNames : ThreadNames[k] = t
MsgIds == 1..MaxMsgs
Unbound == <<"unbound">>

\* Outbound frames (websocket.py:52-57, 72-75, 90-93, 120-130, 150-155, 192-197,
\* 203), one record shape for all kinds; fields a kind does not carry are None / 0.
Frame(type, id, thread_id, uid, content) ==
  [type |-> type, id |-> id, thread_id |-> thread_id, user_id |-> uid, content |-> content]
NoFrame == Frame(None, 0, None, None, None)
ConnectionFrame(u) == Frame("connection", 0, None, u, "connected")
ErrorFrame(text) == Frame("error", 0, None, None, text)
PongFrame == Frame("pong", 0, None, None, None)
NewMessageFrame(id, thread_id, sender, content) == Frame("new_message", id, thread_id, sender, content)
TypingFrame(thread_id, u) == Frame("typing", 0, thread_id, u, None)
ReceiptFrame(message_id, thread_id, u) == Frame("read_receipt", message_id, thread_id, u, None)

\* Inbound frames: what json.loads(data) gives, read with .get (None: key absent).
\* "malformed" is a text json.loads cannot parse.
InFrame(type, thread_id, content, message_id) ==
  [type |-> type, thread_id |-> thread_id, content |-> content, message_id |-> message_id]
NoInFrame == InFrame(None, None, None, 0)
NoLastIn == [conn |-> None, frame |-> NoInFrame]
MessageFrames ==
  {InFrame("message", "T1", "hi", 0), InFrame("message", "T2", "yo", 0),
   InFrame("message", None, "hi", 0), InFrame("message", "T1", None, 0)}
TypingFrames == {InFrame("typing", t, None, 0) : t \in Threads \cup {None}}
ReceiptFrames ==
  {InFrame("read_receipt", "T2", None, m) : m \in MsgIds}
  \cup {InFrame("read_receipt", "T1", None, 1),
        InFrame("read_receipt", None, None, 1), InFrame("read_receipt", "T1", None, 0)}
OtherFrames == {InFrame("ping", None, None, 0), InFrame("bogus", None, None, 0),
                InFrame("malformed", None, None, 0)}
InFrames == MessageFrames \cup TypingFrames \cup ReceiptFrames \cup OtherFrames

\* All orders in which a query without ORDER BY can return the rows of S.
Perms(S) ==
  {q \in UNION {[1..n -> S] : n \in {Cardinality(S)}} :
     \A a, b \in 1..Cardinality(S) : a # b => q[a] # q[b]}

\* How many times frame f occurs in the sequence rc.
Count(rc, f) == Cardinality({k \in 1..Len(rc) : rc[k] = f})

Restrict(f, D) == [x \in D |-> f[x]]

\* ---------------------------------------------------------------- store
\* select(thread_participants.c.user_id).where(thread_id == t)
ParticipantsOf(t) == {r[2] : r \in {x \in thread_participants : x[1] = t}}
\* select(thread_participants).where(thread_id == t, user_id == u).first()
IsParticipant(u, t) == <<t, u>> \in thread_participants
\* select(DirectMessage).where(id == m, thread_id == t).scalar_one_or_none()
FindMessage(m, t) ==
  IF m \in 1..Len(direct_messages) /\ direct_messages[m].thread_id = t THEN m ELSE 0

\* ---------------------------------------------------------------- credentials
\* security.decode_token: the payload of a token that verifies, else nothing.
NoPayload == [type |-> None, sub |-> None]
DecodeToken(tok) ==
  IF tok.decodes THEN [type |-> tok.type, sub |-> tok.sub] ELSE NoPayload

\* get_user_from_token without the test of the payload's type (line 20).
GetUserFromTokenAnyType(tok) ==
  LET payload == DecodeToken(tok) IN
  IF payload = NoPayload THEN None
  ELSE IF payload.sub = None THEN None
  ELSE IF <<payload.sub, TRUE>> \in UserRows THEN payload.sub
  ELSE None

\* websocket.py get_user_from_token: the active user the token names, else None.
GetUserFromToken(tok) ==
  LET payload == DecodeToken(tok) IN
  IF payload = NoPayload THEN None
  ELSE IF payload.type # "access" THEN None
  ELSE IF payload.sub = None THEN None
  ELSE IF <<payload.sub, TRUE>> \in UserRows THEN payload.sub
  ELSE None

\* ---------------------------------------------------------------- registry
NoIter == [user |-> None, size |-> 0, snap |-> {}, visited |-> {},
           disconnected |-> {}, dead |-> FALSE]

\* The registry state a step threads through its calls.
Reg == [ac |-> active_connections, it |-> iter, un |-> unregs]

\* connect that adds the socket to the set of every user that has an entry.
RegConnectShared(S, i, u, c) ==
  LET m == S.ac[i] IN
  [S EXCEPT !.ac[i] =
     [x \in DOMAIN m \cup {u} |-> (IF x \in DOMAIN m THEN m[x] ELSE {}) \cup {c}]]

\* ConnectionManager.connect after accept(): create the entry, add the socket.
RegConnect(S, i, u, c) ==
  LET m == S.ac[i] IN
  [S EXCEPT !.ac[i] =
     [x \in DOMAIN m \cup {u} |->
        IF x = u THEN (IF u \in DOMAIN m THEN m[u] ELSE {}) \cup {c} ELSE m[x]]]

\* disconnect that leaves the registry as it is.
RegDisconnectKeeps(S, i, u, c) == S

\* disconnect that discards the socket and leaves an emptied entry in place.
RegDisconnectKeepsEmpty(S, i, u, c) ==
  IF u \notin DOMAIN S.ac[i] THEN S
  ELSE [S EXCEPT !.ac[i][u] = @ \ {c},
                 !.un = IF c \in S.ac[i][u] THEN [S.un EXCEPT ![c] = @ + 1] ELSE S.un]

\* ConnectionManager.disconnect: discard the socket, delete an empty entry.
\* A deleted set object stays empty for whoever still iterates it (dead).
RegDisconnect(S, i, u, c) ==
  IF u \notin DOMAIN S.ac[i] THEN S
  ELSE
    LET m == S.ac[i]
        rest_ == m[u] \ {c} IN
    [ac |-> [S.ac EXCEPT ![i] =
               IF rest_ = {} THEN Restrict(m, DOMAIN m \ {u})
               ELSE [m EXCEPT ![u] = rest_]],
     it |-> IF rest_ = {}
            THEN [d \in Conns |->
                    IF inst[d] = i /\ S.it[d].user = u
                    THEN [S.it[d] EXCEPT !.dead = TRUE] ELSE S.it[d]]
            ELSE S.it,
     un |-> IF c \in S.ac[i][u] THEN [S.un EXCEPT ![c] = @ + 1] ELSE S.un]

\* send_personal_message lines 58-60: disconnect every socket whose send failed.
RECURSIVE CleanUp(_, _, _, _)
CleanUp(S, i, u, D) ==
  IF D = {} THEN S
  ELSE LET x == CHOOSE x \in D : TRUE
       IN CleanUp(RegDisconnect(S, i, u, x), i, u, D \ {x})

\* broadcast_to_thread / send_personal_message line 49: users without an entry
\* are passed over without a suspension.
RECURSIVE SkipAbsent(_, _)
SkipAbsent(q, m) ==
  IF q = <<>> THEN q
  ELSE IF Head(q) \in DOMAIN m THEN q
  ELSE SkipAbsent(Tail(q), m)


\* ---------------------------------------------------------------- initial state
\* Thread T1 of U1 and U2, thread T2 of all three users and one message of U1 in
\* T2 already in the store; no connection yet.
InitThreadParticipants ==
  {<<"T1", "U1">>, <<"T1", "U2">>, <<"T2", "U1">>, <<"T2", "U2">>, <<"T2", "U3">>}
InitMessages ==
  <<[thread_id |-> "T2", sender_id |-> "U1", content |-> "hi", read_by |-> {"U1"}]>>
NoRest == [op |-> None, user |-> None, thread_id |-> None, message_id |-> 0,
           content |-> None, set |-> {}]
NoResponse == [status |-> 0, thread_id |-> None, for |-> {}]

NoFailure == [at |-> None, frame |-> NoInFrame]

NoPub == [by |-> None, frame |-> NoFrame, to |-> {}, reg |-> [i \in Instances |-> << >>],
          had |-> [x \in Conns |-> 0]]

\* The causes for which a token must be rejected: it does not decode, it is not
\* an access token, it names no subject, or its subject is not an active user.
MustReject(tok) ==
  \/ ~tok.decodes
  \/ tok.type # "access"
  \/ tok.sub = None
  \/ tok.sub \notin {r[1] : r \in {x \in UserRows : x[2]}}

\* Everything but the stored messages.
InitSessions ==
  /\ user_id = [c \in Conns |-> None]
  /\ live = [c \in Conns |-> TRUE]
  /\ closeCode = [c \in Conns |-> 0]
  /\ active_connections = [i \in Instances |-> << >>]
  /\ received = [c \in Conns |-> << >>]
  /\ new_message = [c \in Conns |-> 0]
  /\ participant_ids = [c \in Conns |-> Unbound]
  /\ bframe = [c \in Conns |-> NoFrame]
  /\ bq = [c \in Conns |-> << >>]
  /\ iter = [c \in Conns |-> NoIter]
  /\ cur = [c \in Conns |-> NoInFrame]
  /\ rb = [c \in Conns |-> {}]
  /\ thread_participants = InitThreadParticipants
  /\ threads = {"T1", "T2"}
  /\ updated_at = [t \in ThreadIds |-> 0]
  /\ clock = 0
  /\ rest = [r \in Rests |-> NoRest]
  /\ response = [r \in Rests |-> NoResponse]
  /\ registered = [c \in Conns |-> FALSE]
  /\ unregs = [c \in Conns |-> 0]
  /\ badToken = [c \in Conns |-> FALSE]
  /\ lastin = NoLastIn
  /\ bus = << >>
  /\ failed = [c \in Conns |-> NoFailure]
  /\ pub = NoPub

InitCommon ==
  /\ InitSessions
  /\ direct_messages = InitMessages

\* Connections are named in the order their clients open them.
Before(c) == CASE c = "c1" -> {} [] c = "c2" -> {"c1"} [] OTHER -> {"c1", "c2"}

\* One gateway process; two clients open a connection each.
Init ==
  /\ InitCommon
  /\ pc = [c \in Conns |-> IF c = "c3" THEN "off" ELSE "idle"]
  /\ inst = [c \in Conns |-> "A"]
  /\ budget = [frames |-> MaxFrames, drops |-> MaxDrops, rest |-> 0, faults |-> 0]
  /\ redis = [i \in Instances |-> TRUE]

\* One gateway process; one client, more frames.
InitOne ==
  /\ InitCommon
  /\ pc = [c \in Conns |-> IF c = "c1" THEN "idle" ELSE "off"]
  /\ inst = [c \in Conns |-> "A"]
  /\ budget = [frames |-> MaxFramesOne, drops |-> MaxDrops, rest |-> 0, faults |-> 0]
  /\ redis = [i \in Instances |-> TRUE]

\* One gateway process, two clients, more frames and no message stored yet.
InitOrder ==
  /\ InitSessions
  /\ direct_messages = << >>
  /\ pc = [c \in Conns |-> IF c = "c3" THEN "off" ELSE "idle"]
  /\ inst = [c \in Conns |-> "A"]
  /\ budget = [frames |-> MaxFramesOne, drops |-> MaxDrops, rest |-> 0, faults |-> 0]
  /\ redis = [i \in Instances |-> TRUE]

\* One gateway process; three clients.
InitThree ==
  /\ InitCommon
  /\ pc = [c \in Conns |-> "idle"]
  /\ inst = [c \in Conns |-> "A"]
  /\ budget = [frames |-> MaxFrames, drops |-> MaxDrops, rest |-> 0, faults |-> 0]
  /\ redis = [i \in Instances |-> TRUE]

\* Two gateway processes A and B with one client each.
InitBus ==
  /\ InitCommon
  /\ pc = [c \in Conns |-> IF c = "c3" THEN "off" ELSE "idle"]
  /\ inst = [c \in Conns |-> IF c = "c1" THEN "A" ELSE "B"]
  /\ budget = [frames |-> MaxFrames, drops |-> MaxDrops, rest |-> 0, faults |-> 0]
  /\ redis = [i \in Instances |-> TRUE]

\* Two gateway processes with one client each that sends no frame.
InitSub ==
  /\ InitCommon
  /\ pc = [c \in Conns |-> IF c = "c3" THEN "off" ELSE "idle"]
  /\ inst = [c \in Conns |-> IF c = "c1" THEN "A" ELSE "B"]
  /\ budget = [frames |-> 0, drops |-> MaxDrops, rest |-> 0, faults |-> 0]
  /\ redis = [i \in Instances |-> TRUE]

\* One gateway process, two clients, and REST requests beside them.
InitRead ==
  /\ InitCommon
  /\ pc = [c \in Conns |-> IF c = "c3" THEN "off" ELSE "idle"]
  /\ inst = [c \in Conns |-> "A"]
  /\ budget = [frames |-> MaxFrames, drops |-> MaxDrops, rest |-> MaxReads, faults |-> 0]
  /\ redis = [i \in Instances |-> TRUE]

\* One gateway process, two clients, and store calls that raise.
InitFault ==
  /\ InitCommon
  /\ pc = [c \in Conns |-> IF c = "c3" THEN "off" ELSE "idle"]
  /\ inst = [c \in Conns |-> "A"]
  /\ budget = [frames |-> MaxFrames, drops |-> MaxDrops, rest |-> 0, faults |-> MaxFaults]
  /\ redis = [i \in Instances |-> TRUE]

\* One gateway process whose initialize() could not reach Redis; three clients.
InitOutage ==
  /\ InitCommon
  /\ pc = [c \in Conns |-> "idle"]
  /\ inst = [c \in Conns |-> "A"]
  /\ budget = [frames |-> MaxFrames, drops |-> MaxDrops, rest |-> 0, faults |-> 0]
  /\ redis = [i \in Instances |-> FALSE]

\* The REST routes alone.
InitThreads ==
  /\ InitCommon
  /\ pc = [c \in Conns |-> "off"]
  /\ inst = [c \in Conns |-> "A"]
  /\ budget = [frames |-> 0, drops |-> 0, rest |-> MaxRest, faults |-> 0]
  /\ redis = [i \in Instances |-> TRUE]

\* ---------------------------------------------------------------- task endings
\* websocket.py:205-210: an exception leaves the loop; finally: manager.disconnect.
\* The task's locals go with it.
Closes(c, S) ==
  LET T == RegDisconnect(S, inst[c], user_id[c], c) IN
  /\ pc' = [pc EXCEPT ![c] = "closed"]
  /\ active_connections' = T.ac
  /\ unregs' = T.un
  /\ iter' = [T.it EXCEPT ![c] = NoIter]
  /\ bq' = [bq EXCEPT ![c] = << >>]
  /\ bframe' = [bframe EXCEPT ![c] = NoFrame]
  /\ cur' = [cur EXCEPT ![c] = NoInFrame]
  /\ new_message' = [new_message EXCEPT ![c] = 0]
  /\ participant_ids' = [participant_ids EXCEPT ![c] = Unbound]
  /\ rb' = [rb EXCEPT ![c] = {}]
  /\ UNCHANGED pub

\* ---------------------------------------------------------------- deliver
\* One connection.send_json(message) of send_personal_message (lines 52-56): the
\* frame is written, or the send raises and the socket is put in disconnected.
\* A transport that hands the client its newest frame first.
SendToFront(rc, x, f) == IF live[x] THEN [rc EXCEPT ![x] = <<f>> \o @] ELSE rc

SendTo(rc, x, f) == IF live[x] THEN [rc EXCEPT ![x] = Append(@, f)] ELSE rc

\* broadcast_to_thread from the first user of q that has an entry: the set
\* iterator is created and its first socket is sent to before any suspension.
\* With no such user the handler is over and the task awaits the next frame.
BeginDeliver(c, S, rc, q, f) ==
  LET m == S.ac[inst[c]]
      q2 == SkipAbsent(q, m)
  IN
  /\ active_connections' = S.ac
  /\ unregs' = S.un
  /\ cur' = [cur EXCEPT ![c] = NoInFrame]
  /\ IF q2 = << >>
     THEN /\ pc' = [pc EXCEPT ![c] = "recv"]
          /\ iter' = [S.it EXCEPT ![c] = NoIter]
          /\ received' = rc
          /\ bq' = [bq EXCEPT ![c] = << >>]
          /\ bframe' = [bframe EXCEPT ![c] = NoFrame]
     ELSE \E x \in m[Head(q2)] :
          /\ pc' = [pc EXCEPT ![c] = "bcast"]
          /\ iter' = [S.it EXCEPT ![c] =
                        [user |-> Head(q2), size |-> Cardinality(m[Head(q2)]),
                         snap |-> m[Head(q2)], visited |-> {x},
                         disconnected |-> IF live[x] THEN {} ELSE {x},
                         dead |-> FALSE]]
          /\ received' = SendTo(rc, x, f)
          /\ bq' = [bq EXCEPT ![c] = Tail(q2)]
          /\ bframe' = [bframe EXCEPT ![c] = f]

\* A call of broadcast_to_thread(f, q) by the handler of task c.
Publish(c, S, rc, q, f) ==
  /\ BeginDeliver(c, S, rc, q, f)
  /\ pub' = [by |-> c, frame |-> f, to |-> {q[k] : k \in 1..Len(q)}, reg |-> S.ac,
             had |-> [x \in Conns |-> Count(rc[x], f)]]

\* ---------------------------------------------------------------- bus
\* websocket_manager.py:67-73, publish_message: the payload goes to the channel.
\* websocket_manager.py:75-88, handle_redis_messages: a payload of the channel is
\* sent to the local connections of its user_ids.
\* No code calls either: the handlers of websocket.py call broadcast_to_thread
\* only, and server.py's lifespan calls manager.initialize() and starts no
\* subscription task. Neither is a step of any process, and bus stays empty.
PublishMessage(b, message) == Append(b, message)
HandleRedisMessages(b) == Tail(b)

\* Payloads of the channel: the recipients and the event of a stored message.
BusPayloads ==
  {[user_ids |-> ids, frame |-> NewMessageFrame(1, "T2", "U1", "hi")] :
     ids \in {{"U1"}, {"U2"}, {"U1", "U2"}}}

\* A payload json.loads raises on (websocket_manager.py:82).
Undecodable == [user_ids |-> {}, frame |-> NoFrame]

\* websocket_manager.py:24-26: the instances subscribe to the Redis channel
\* "messages", and a client of that Redis publishes a payload on it.
ChannelPublish(p) ==
  /\ Len(bus) < MaxBus
  /\ \E i \in Instances : redis[i]
  /\ bus' = PublishMessage(bus, p)
  /\ lastin' = NoLastIn
  /\ UNCHANGED <<pc, live, active_connections, received, bframe, bq, iter, cur,
                 unregs, pub, redis, failed, budget>>
  /\ UNCHANGED <<sessVars, localVars, storeVars, rest, response>>

\* ---------------------------------------------------------------- connection
\* websocket.py:36-47: the client opens the socket with a token. A token that
\* does not verify is answered with close(1008); otherwise manager.connect
\* awaits websocket.accept().
Connect(c, tok) ==
  /\ pc[c] = "idle"
  /\ \A d \in Before(c) : pc[d] # "idle"
  /\ badToken' = [badToken EXCEPT ![c] = MustReject(tok)]
  /\ LET user == GetUserFromToken(tok) IN
     IF user = None
     THEN /\ closeCode' = [closeCode EXCEPT ![c] = 1008]
          /\ pc' = [pc EXCEPT ![c] = "closed"]
          /\ UNCHANGED user_id
     ELSE /\ user_id' = [user_id EXCEPT ![c] = user]
          /\ pc' = [pc EXCEPT ![c] = "accept"]
          /\ UNCHANGED closeCode
  /\ lastin' = NoLastIn
  /\ UNCHANGED <<live, inst, active_connections, received, bframe, bq, iter, cur,
                 budget, registered, unregs, pub>>
  /\ UNCHANGED <<localVars, storeVars, restVars>>

\* A connect that registers the socket and serves it without the connection frame.
RegisterNoAck(c) ==
  /\ pc[c] = "accept"
  /\ live[c]
  /\ pc' = [pc EXCEPT ![c] = "recv"]
  /\ active_connections' = RegConnect(Reg, inst[c], user_id[c], c).ac
  /\ registered' = [registered EXCEPT ![c] = TRUE]
  /\ lastin' = NoLastIn
  /\ UNCHANGED <<received, unregs, iter, bq, bframe, cur, localVars, pub>>
  /\ UNCHANGED <<user_id, live, closeCode, inst, budget, badToken>>
  /\ UNCHANGED <<storeVars, restVars>>

\* websocket_manager.py:33-36 and websocket.py:50-57: accept() returns, the
\* socket is added to the user's set and the connection frame is written. When
\* the client is gone, accept() raises before the socket is registered, or the
\* ack's send_json raises and the finally clause unregisters the socket again.
Register(c) ==
  /\ pc[c] = "accept"
  /\ LET S == RegConnect(Reg, inst[c], user_id[c], c) IN
     \/ /\ live[c]
        /\ pc' = [pc EXCEPT ![c] = "recv"]
        /\ active_connections' = S.ac
        /\ received' = [received EXCEPT ![c] = Append(@, ConnectionFrame(user_id[c]))]
        /\ registered' = [registered EXCEPT ![c] = TRUE]
        /\ UNCHANGED <<unregs, iter, bq, bframe, cur, localVars, pub>>
     \/ /\ ~live[c]
        /\ pc' = [pc EXCEPT ![c] = "closed"]
        /\ UNCHANGED <<active_connections, received, registered, unregs, iter,
                       bq, bframe, cur, localVars, pub>>
     \/ /\ ~live[c]
        /\ registered' = [registered EXCEPT ![c] = TRUE]
        /\ Closes(c, S)
        /\ UNCHANGED received
  /\ lastin' = NoLastIn
  /\ UNCHANGED <<user_id, live, closeCode, inst, budget, badToken>>
  /\ UNCHANGED <<storeVars, restVars>>

\* The client goes away (tab closed, network lost) at any moment.
ClientDrop(c) ==
  /\ pc[c] \notin {"idle", "off", "closed"}
  /\ live[c]
  /\ budget.drops > 0
  /\ budget' = [budget EXCEPT !.drops = @ - 1]
  /\ live' = [live EXCEPT ![c] = FALSE]
  /\ lastin' = NoLastIn
  /\ UNCHANGED <<pc, active_connections, received, bframe, bq, iter, cur, unregs, pub>>
  /\ UNCHANGED <<sessVars, localVars, storeVars, restVars>>

\* websocket.py:61, 205-210: receive_text raises WebSocketDisconnect.
RecvDisconnect(c) ==
  /\ pc[c] = "recv"
  /\ ~live[c]
  /\ Closes(c, Reg)
  /\ lastin' = NoLastIn
  /\ UNCHANGED <<live, received, budget>>
  /\ UNCHANGED <<sessVars, storeVars, restVars>>

\* ---------------------------------------------------------------- broadcast
\* websocket.py:132, 157, 199 after the await that fetched the participants:
\* manager.broadcast_to_thread(frame, participant_ids).
BroadcastStart(c) ==
  /\ pc[c] = "bstart"
  /\ Publish(c, Reg, received, participant_ids[c], bframe[c])
  /\ lastin' = NoLastIn
  /\ UNCHANGED <<live, budget>>
  /\ UNCHANGED <<sessVars, localVars, storeVars, restVars>>

\* send_personal_message resumes after a send_json (websocket_manager.py:51-60):
\* the set iterator raises RuntimeError when the set changed size, else the next
\* socket is sent to, else the failed sockets are disconnected and
\* broadcast_to_thread goes on to the next user.
BroadcastStep(c) ==
  /\ pc[c] = "bcast"
  /\ LET it == iter[c]
         m == active_connections[inst[c]]
         now == IF it.user \in DOMAIN m THEN m[it.user] ELSE {}
         changed == it.dead \/ Cardinality(now) # it.size
         cands == now \ it.visited
     IN
     \/ /\ changed
        /\ Closes(c, Reg)
        /\ UNCHANGED received
     \/ /\ ~changed
        /\ \E x \in cands :
             /\ received' = SendTo(received, x, bframe[c])
             /\ iter' = [iter EXCEPT ![c] =
                           [it EXCEPT !.visited = @ \cup {x},
                                      !.disconnected = IF live[x] THEN @ ELSE @ \cup {x}]]
        /\ UNCHANGED <<pc, active_connections, unregs, bq, bframe, cur, localVars, pub>>
     \/ /\ ~changed
        /\ cands \cap it.snap = {}
        /\ BeginDeliver(c, CleanUp(Reg, inst[c], it.user, it.disconnected),
                        received, bq[c], bframe[c])
        /\ UNCHANGED <<localVars, pub>>
  /\ lastin' = NoLastIn
  /\ UNCHANGED <<live, budget>>
  /\ UNCHANGED <<sessVars, storeVars, restVars>>

\* ---------------------------------------------------------------- inbound frames
\* Messages being written: the store is full when they exceed MaxMsgs.
Pending == Cardinality({d \in Conns : pc[d] = "commit"})
           + Cardinality({r \in Rests : rest[r].op = "send_message"})

\* The handler answers on its own socket and awaits the next frame.
Answer(c, f) ==
  /\ received' = [received EXCEPT ![c] = Append(@, f)]
  /\ UNCHANGED <<pc, active_connections, unregs, iter, bq, bframe, cur, localVars, pub>>

\* The handler does nothing and awaits the next frame.
Ignore(c) ==
  UNCHANGED <<pc, active_connections, received, unregs, iter, bq, bframe, cur, localVars, pub>>

\* The handler awaits a store call at position p with message_data kept.
Await(c, f, p) ==
  /\ pc' = [pc EXCEPT ![c] = p]
  /\ cur' = [cur EXCEPT ![c] = f]
  /\ UNCHANGED <<active_connections, received, unregs, iter, bq, bframe, localVars, pub>>

\* websocket.py:66-117, a "message" frame up to the await of db.commit().
\* Line 94's continue continues the async for over get_db(), which yields once:
\* the loop ends and control reaches line 119 with the locals new_message and
\* participant_ids of an earlier frame, or with new_message unbound (NameError).
HandleMessage(c, f) ==
  LET u == user_id[c]
      err == [received EXCEPT ![c] = Append(@, ErrorFrame("Not a participant in this thread"))]
  IN
  IF f.thread_id = None \/ f.content = None
  THEN Answer(c, ErrorFrame("Missing thread_id or content"))
  ELSE IF ~IsParticipant(u, f.thread_id)
  THEN IF new_message[c] = 0 \/ participant_ids[c] = Unbound
       THEN /\ received' = err
            /\ Closes(c, Reg)
       ELSE /\ Publish(c, Reg, err, participant_ids[c],
                       NewMessageFrame(new_message[c], f.thread_id, u, f.content))
            /\ UNCHANGED localVars
  ELSE /\ Len(direct_messages) + Pending < MaxMsgs
       /\ Await(c, f, "commit")

\* websocket.py:134-157, a "typing" frame up to the await of the participants.
HandleTyping(c, f) ==
  IF f.thread_id = None
  THEN Ignore(c)
  ELSE \E q \in Perms(ParticipantsOf(f.thread_id) \ {user_id[c]}) :
       /\ participant_ids' = [participant_ids EXCEPT ![c] = q]
       /\ bframe' = [bframe EXCEPT ![c] = TypingFrame(f.thread_id, user_id[c])]
       /\ pc' = [pc EXCEPT ![c] = "bstart"]
       /\ UNCHANGED <<active_connections, received, unregs, iter, bq, cur,
                      new_message, rb, pub>>

\* websocket.py:159-173, a "read_receipt" frame up to the await of the select.
HandleReceipt(c, f) ==
  IF f.message_id # 0 /\ f.thread_id # None
  THEN Await(c, f, "rr_select")
  ELSE Ignore(c)

\* A ping branch that answers twice.
HandlePingTwice(c) ==
  /\ received' = [received EXCEPT ![c] = Append(Append(@, PongFrame), PongFrame)]
  /\ UNCHANGED <<pc, active_connections, unregs, iter, bq, bframe, cur, localVars, pub>>

\* websocket.py:201-203: a "ping" frame is answered with pong.
HandlePing(c) == Answer(c, PongFrame)

\* websocket.py:64-66, 134, 159, 201: no branch takes any other type.
HandleOther(c) == Ignore(c)

\* websocket.py:62, 207-210: json.loads raises on a text that is not JSON.
HandleMalformed(c) ==
  /\ Closes(c, Reg)
  /\ UNCHANGED received

\* A receive loop that dispatches a frame while the handler of the frame before
\* still awaits its commit.
ReceiveParallel(c, f) ==
  /\ pc[c] \in {"recv", "commit"}
  /\ live[c]
  /\ budget.frames > 0
  /\ budget' = [budget EXCEPT !.frames = @ - 1]
  /\ lastin' = [conn |-> c, frame |-> f]
  /\ f.type = "message" /\ f.thread_id # None /\ f.content # None
  /\ IsParticipant(user_id[c], f.thread_id)
  /\ pc' = [pc EXCEPT ![c] = "commit"]
  /\ cur' = [cur EXCEPT ![c] = f]
  /\ UNCHANGED <<active_connections, received, unregs, iter, bq, bframe, localVars, pub>>
  /\ UNCHANGED live
  /\ UNCHANGED <<sessVars, storeVars, restVars>>

\* websocket.py:59-66: one turn of the receive loop.
Receive(c, f) ==
  /\ pc[c] = "recv"
  /\ live[c]
  /\ budget.frames > 0
  /\ budget' = [budget EXCEPT !.frames = @ - 1]
  /\ lastin' = [conn |-> c, frame |-> f]
  /\ CASE f.type = "message" -> HandleMessage(c, f)
       [] f.type = "typing" -> HandleTyping(c, f)
       [] f.type = "read_receipt" -> HandleReceipt(c, f)
       [] f.type = "ping" -> HandlePing(c)
       [] f.type = "malformed" -> HandleMalformed(c)
       [] OTHER -> HandleOther(c)
  /\ UNCHANGED live
  /\ UNCHANGED <<sessVars, storeVars, restVars>>

\* ---------------------------------------------------------------- store writes
\* db.add(new_message); db.commit(): the row gets the next id and
\* read_by = [user_id] (kept as a set: the code only tests membership and appends).
InsertMessageLost(msgs, t, u, x) == msgs

InsertMessage(msgs, t, u, x) ==
  Append(msgs, [thread_id |-> t, sender_id |-> u, content |-> x, read_by |-> {u}])

\* message.read_by = read_by_list; db.commit(): the column is written whole.
WriteReadBy(msgs, m, list) == [msgs EXCEPT ![m].read_by = list]

\* read_by_list = message.read_by or []; read_by_list.append(user_id);
\* message.read_by = read_by_list; db.commit(). read_by is a plain JSON column
\* (models.py:218): a loaded list that is not empty is the attribute's own
\* object, appended to in place and assigned back to itself, and whether the
\* flush then sees a change and emits the UPDATE is left to the ORM's
\* comparison of the new value with the old. An empty or missing list is
\* replaced by a new one and is written.
FlushReadBy(msgs, m, list, u) ==
  IF list \ {u} = {} THEN {WriteReadBy(msgs, m, list)}
  ELSE {WriteReadBy(msgs, m, list), msgs}

\* websocket.py:105-117: commit and refresh of the new message, then the await
\* of the participants query.
Commit(c) ==
  /\ pc[c] = "commit"
  /\ direct_messages' = InsertMessage(direct_messages, cur[c].thread_id, user_id[c], cur[c].content)
  /\ new_message' = [new_message EXCEPT ![c] = Len(direct_messages) + 1]
  /\ \E q \in Perms(ParticipantsOf(cur[c].thread_id)) :
       participant_ids' = [participant_ids EXCEPT ![c] = q]
  /\ bframe' = [bframe EXCEPT ![c] =
                  NewMessageFrame(Len(direct_messages) + 1, cur[c].thread_id,
                                  user_id[c], cur[c].content)]
  /\ pc' = [pc EXCEPT ![c] = "bstart"]
  /\ cur' = [cur EXCEPT ![c] = NoInFrame]
  /\ lastin' = NoLastIn
  /\ UNCHANGED <<live, active_connections, received, bq, iter, rb, budget, unregs, pub>>
  /\ UNCHANGED <<sessVars, thread_participants, threads, updated_at, clock, restVars>>

\* websocket.py:174-199 after the select of the message: a message that is found
\* gets the reader appended (commit pending) or is left alone; one that is not
\* found leaves participant_ids as an earlier frame set it, or unbound (NameError).
ReceiptSelect(c) ==
  /\ pc[c] = "rr_select"
  /\ LET f == cur[c]
         u == user_id[c]
         m == FindMessage(f.message_id, f.thread_id)
         frame == ReceiptFrame(f.message_id, f.thread_id, u)
     IN
     IF m # 0
     THEN IF u \notin direct_messages[m].read_by
          THEN /\ rb' = [rb EXCEPT ![c] = direct_messages[m].read_by \cup {u}]
               /\ pc' = [pc EXCEPT ![c] = "rr_commit"]
               /\ UNCHANGED <<active_connections, received, unregs, iter, bq,
                              bframe, cur, new_message, participant_ids, pub>>
          ELSE /\ \E q \in Perms(ParticipantsOf(f.thread_id)) :
                    participant_ids' = [participant_ids EXCEPT ![c] = q]
               /\ bframe' = [bframe EXCEPT ![c] = frame]
               /\ pc' = [pc EXCEPT ![c] = "bstart"]
               /\ cur' = [cur EXCEPT ![c] = NoInFrame]
               /\ UNCHANGED <<active_connections, received, unregs, iter, bq,
                              new_message, rb, pub>>
     ELSE IF participant_ids[c] = Unbound
          THEN /\ Closes(c, Reg)
               /\ UNCHANGED received
          ELSE /\ Publish(c, Reg, received, participant_ids[c], frame)
               /\ UNCHANGED localVars
  /\ lastin' = NoLastIn
  /\ UNCHANGED <<live, budget>>
  /\ UNCHANGED <<sessVars, storeVars, restVars>>

\* websocket.py:180-189: the commit of read_by, then the await of the participants.
ReceiptCommit(c) ==
  /\ pc[c] = "rr_commit"
  /\ direct_messages' \in FlushReadBy(direct_messages, cur[c].message_id, rb[c], user_id[c])
  /\ \E q \in Perms(ParticipantsOf(cur[c].thread_id)) :
       participant_ids' = [participant_ids EXCEPT ![c] = q]
  /\ bframe' = [bframe EXCEPT ![c] =
                  ReceiptFrame(cur[c].message_id, cur[c].thread_id, user_id[c])]
  /\ rb' = [rb EXCEPT ![c] = {}]
  /\ pc' = [pc EXCEPT ![c] = "bstart"]
  /\ cur' = [cur EXCEPT ![c] = NoInFrame]
  /\ lastin' = NoLastIn
  /\ UNCHANGED <<live, active_connections, received, new_message, bq, iter,
                 budget, unregs, pub>>
  /\ UNCHANGED <<sessVars, thread_participants, threads, updated_at, clock, restVars>>

\* ---------------------------------------------------------------- store failures
\* A handler that catches the exception of db.commit() and carries on to the
\* broadcast of the message it built.
StoreFailsSwallowed(c) ==
  /\ pc[c] \in {"commit", "rr_select", "rr_commit", "bstart"}
  /\ budget.faults > 0
  /\ budget' = [budget EXCEPT !.faults = @ - 1]
  /\ failed' = [failed EXCEPT ![c] = [at |-> pc[c], frame |-> cur[c]]]
  /\ IF pc[c] = "commit"
     THEN /\ new_message' = [new_message EXCEPT ![c] = Len(direct_messages) + 1]
          /\ \E q \in Perms(ParticipantsOf(cur[c].thread_id)) :
               participant_ids' = [participant_ids EXCEPT ![c] = q]
          /\ bframe' = [bframe EXCEPT ![c] =
                          NewMessageFrame(Len(direct_messages) + 1, cur[c].thread_id,
                                          user_id[c], cur[c].content)]
          /\ pc' = [pc EXCEPT ![c] = "bstart"]
          /\ cur' = [cur EXCEPT ![c] = NoInFrame]
          /\ UNCHANGED <<active_connections, unregs, iter, bq, rb, pub>>
     ELSE Closes(c, Reg)
  /\ lastin' = NoLastIn
  /\ UNCHANGED <<live, received, bus, redis>>
  /\ UNCHANGED <<sessVars, storeVars, rest, response>>

\* A store call of the handler (db.execute, db.commit, db.refresh) raises: the
\* one try of websocket.py:50-210 has no handler inside the loop, so the
\* exception leaves the loop, is logged at 207-208 and the finally clause
\* unregisters the connection.
StoreFails(c) ==
  /\ pc[c] \in {"commit", "rr_select", "rr_commit", "bstart"}
  /\ budget.faults > 0
  /\ budget' = [budget EXCEPT !.faults = @ - 1]
  /\ failed' = [failed EXCEPT ![c] = [at |-> pc[c], frame |-> cur[c]]]
  /\ Closes(c, Reg)
  /\ lastin' = NoLastIn
  /\ UNCHANGED <<live, received, bus, redis>>
  /\ UNCHANGED <<sessVars, storeVars, rest, response>>

\* ---------------------------------------------------------------- REST routes
wsVars == <<pc, live, active_connections, received, bframe, bq, iter, cur, unregs, pub, busVars>>

\* Request slots are taken in the order of their names.
FreeSlot(r) ==
  /\ rest[r].op = None
  /\ r = "r2" => rest["r1"].op # None

Respond(r, status, t, set) ==
  /\ response' = [response EXCEPT ![r] = [status |-> status, thread_id |-> t, for |-> set]]
  /\ rest' = [rest EXCEPT ![r] = NoRest]

\* messages.py:184-229, mark_message_read up to the await of db.commit():
\* 403 for a caller outside the thread, 404 for a message not in the thread,
\* no write when the caller is in read_by already.
MarkMessageRead(r, u, t, m) ==
  /\ FreeSlot(r)
  /\ budget.rest > 0
  /\ budget' = [budget EXCEPT !.rest = @ - 1]
  /\ lastin' = [conn |-> r, frame |-> InFrame("mark_read", t, None, m)]
  /\ LET found == FindMessage(m, t) IN
     IF ~IsParticipant(u, t) THEN Respond(r, 403, None, {})
     ELSE IF found = 0 THEN Respond(r, 404, None, {})
     ELSE IF u \in direct_messages[found].read_by THEN Respond(r, 200, None, {})
     ELSE /\ rest' = [rest EXCEPT ![r] =
                        [NoRest EXCEPT !.op = "mark_read", !.user = u, !.thread_id = t,
                                       !.message_id = found,
                                       !.set = direct_messages[found].read_by \cup {u}]]
          /\ UNCHANGED response
  /\ UNCHANGED <<wsVars, sessVars, localVars, storeVars>>

\* messages.py:228-233: message.read_by = read_by_list; db.commit(); 200.
MarkMessageReadCommit(r) ==
  /\ rest[r].op = "mark_read"
  /\ direct_messages' \in FlushReadBy(direct_messages, rest[r].message_id, rest[r].set, rest[r].user)
  /\ Respond(r, 200, None, {})
  /\ lastin' = NoLastIn
  /\ UNCHANGED <<wsVars, sessVars, localVars, budget>>
  /\ UNCHANGED <<thread_participants, threads, updated_at, clock>>

\* messages.py:134-155, send_message up to the await of the participant query:
\* 422 for a body whose content is empty (schemas.py:201, min_length=1), 403 for
\* a caller outside the thread, else the message is built and added to the
\* session. The response names the caller.
SendMessage(r, u, t, x) ==
  /\ FreeSlot(r)
  /\ budget.rest > 0
  /\ budget' = [budget EXCEPT !.rest = @ - 1]
  /\ lastin' = [conn |-> r, frame |-> InFrame("send_message", t, x, 0)]
  /\ IF x = None THEN Respond(r, 422, None, {u})
     ELSE IF ~IsParticipant(u, t) THEN Respond(r, 403, None, {u})
     ELSE /\ Len(direct_messages) + Pending < MaxMsgs
          /\ rest' = [rest EXCEPT ![r] =
                        [NoRest EXCEPT !.op = "send_message", !.user = u,
                                       !.thread_id = t, !.content = x]]
          /\ UNCHANGED response
  /\ UNCHANGED <<wsVars, sessVars, localVars, storeVars>>

\* messages.py:168-172: the thread row is selected and, when found, its
\* updated_at is set to the current time.
TouchThread(ts, t, now) ==
  IF t \in threads THEN [ts EXCEPT ![t] = now] ELSE ts

\* messages.py:166-181: the thread is touched, db.commit() writes the message
\* and the thread row, and the message is returned with 201. Nothing is
\* broadcast (the TODO of lines 177-178).
SendMessageCommit(r) ==
  /\ rest[r].op = "send_message"
  /\ clock' = clock + 1
  /\ updated_at' = TouchThread(updated_at, rest[r].thread_id, clock + 1)
  /\ direct_messages' = InsertMessage(direct_messages, rest[r].thread_id,
                                      rest[r].user, rest[r].content)
  /\ Respond(r, 201, rest[r].thread_id, {})
  /\ lastin' = NoLastIn
  /\ UNCHANGED <<wsVars, sessVars, localVars, budget>>
  /\ UNCHANGED <<thread_participants, threads>>

UserIds == {row[1] : row \in UserRows}

\* Participant lists a create-thread request can carry.
ParticipantLists ==
  {{}, {"U1"}, {"U2"}, {"U1", "U2"}, {"U2", "U3"}, {"U1", "U2", "U3"}, {"Banned"}, {"Ghost"}}

\* messages.py:36-41: thread ids with exactly two participant rows among the
\* requested users (other rows of the thread are not looked at).
ExistingThreads(set) ==
  {t \in threads : Cardinality({u \in set : <<t, u>> \in thread_participants}) = 2}

Creating == Cardinality({r \in Rests : rest[r].op = "create_thread"})

\* messages.py:13-56, create_thread up to the await of db.flush(): 404 when a
\* participant is no user; for two participants the existing thread is
\* returned, and scalar_one_or_none raises MultipleResultsFound (500) when the
\* query gives more than one.
CreateThread(r, u, ids) ==
  LET participant_ids_set == ids \cup {u}
      existing == ExistingThreads(participant_ids_set)
  IN
  /\ FreeSlot(r)
  /\ budget.rest > 0
  /\ budget' = [budget EXCEPT !.rest = @ - 1]
  /\ lastin' = [conn |-> r, frame |-> InFrame("create_thread", None, None, 0)]
  /\ IF ~(participant_ids_set \subseteq UserIds)
     THEN Respond(r, 404, None, participant_ids_set)
     ELSE IF Cardinality(participant_ids_set) = 2 /\ Cardinality(existing) > 1
     THEN Respond(r, 500, None, participant_ids_set)
     ELSE IF Cardinality(participant_ids_set) = 2 /\ existing # {}
     THEN \E t \in existing : Respond(r, 201, t, participant_ids_set)
     ELSE /\ Cardinality(threads) + Creating < MaxThreads
          /\ rest' = [rest EXCEPT ![r] =
                        [NoRest EXCEPT !.op = "create_thread", !.user = u,
                                       !.set = participant_ids_set]]
          /\ UNCHANGED response
  /\ UNCHANGED <<wsVars, sessVars, localVars, storeVars>>

\* messages.py:57-69: the thread row and one participant row per user are
\* committed and the new thread is returned.
CreateThreadCommit(r) ==
  /\ rest[r].op = "create_thread"
  /\ \E t \in ThreadIds \ threads :
       /\ \A o \in ThreadIds \ threads : ThreadNo(t) <= ThreadNo(o)
       /\ threads' = threads \cup {t}
       /\ thread_participants' = thread_participants \cup {<<t, u>> : u \in rest[r].set}
       /\ Respond(r, 201, t, rest[r].set)
  /\ lastin' = NoLastIn
  /\ UNCHANGED <<wsVars, sessVars, localVars, budget>>
  /\ UNCHANGED <<direct_messages, updated_at, clock>>

\* ---------------------------------------------------------------- specification
Next ==
  \/ \E c \in Conns, tok \in Tokens : Connect(c, tok)
  \/ \E c \in Conns : Register(c)
  \/ \E c \in Conns : ClientDrop(c)
  \/ \E c \in Conns : RecvDisconnect(c)
  \/ \E c \in Conns, f \in InFrames : Receive(c, f)
  \/ \E c \in Conns : Commit(c)
  \/ \E c \in Conns : ReceiptSelect(c)
  \/ \E c \in Conns : ReceiptCommit(c)
  \/ \E c \in Conns : BroadcastStart(c)
  \/ \E c \in Conns : BroadcastStep(c)

Spec == Init /\ [][Next]_vars
SpecOne == InitOne /\ [][Next]_vars
SpecThree == InitThree /\ [][Next]_vars
SpecOrder == InitOrder /\ [][Next]_vars
SpecBus == InitBus /\ [][Next]_vars

\* Two gateway processes whose clients connect and go away, and a channel that
\* carries payloads. The event loop of an instance runs a task that can take a
\* step, so the system does not stop while a step is possible.
NextSub ==
  \/ \E c \in Conns, tok \in Tokens : Connect(c, tok)
  \/ \E c \in Conns : Register(c)
  \/ \E c \in Conns : ClientDrop(c)
  \/ \E c \in Conns : RecvDisconnect(c)
  \/ \E p \in BusPayloads \cup {Undecodable} : ChannelPublish(p)

SpecSub == InitSub /\ [][NextSub]_vars /\ WF_vars(NextSub)
SpecOutage == InitOutage /\ [][Next]_vars

NextFault ==
  \/ Next
  \/ \E c \in Conns : StoreFails(c)

SpecFault == InitFault /\ [][NextFault]_vars

NextRead ==
  \/ Next
  \/ \E r \in Rests, u \in Users, t \in Threads, m \in MsgIds : MarkMessageRead(r, u, t, m)
  \/ \E r \in Rests : MarkMessageReadCommit(r)

SpecRead == InitRead /\ [][NextRead]_vars

\* The gateway together with the send-message route.
NextSend ==
  \/ Next
  \/ \E r \in Rests, u \in Users, t \in Threads, x \in Contents \cup {None} :
       SendMessage(r, u, t, x)
  \/ \E r \in Rests : SendMessageCommit(r)

SpecSend == InitRead /\ [][NextSend]_vars

NextThreads ==
  \/ \E r \in Rests, u \in Users, ids \in ParticipantLists : CreateThread(r, u, ids)
  \/ \E r \in Rests : CreateThreadCommit(r)

SpecThreads == InitThreads /\ [][NextThreads]_vars

\* ---------------------------------------------------------------- properties
Registry == UNION {UNION {active_connections[i][u] : u \in DOMAIN active_connections[i]}
                   : i \in Instances}

ThreadFrameTypes == {"new_message", "typing", "read_receipt"}

\* C1: no frame concerning thread T (new_message, typing or read_receipt with
\* thread_id T) is ever delivered to a connection of a user that is not a
\* participant of T.
C1_ParticipantIsolation ==
  \A c \in Conns : \A k \in 1..Len(received[c]) :
    received[c][k].type \in ThreadFrameTypes
      => IsParticipant(user_id[c], received[c][k].thread_id)

\* C2: a new_message frame a connection has received names a message that is
\* in the store; the frame of an accepted message carries the stored thread,
\* sender and content.
C2_PersistBeforeBroadcast ==
  \A c \in Conns : \A k \in 1..Len(received[c]) :
    LET f == received[c][k] IN
    f.type = "new_message" =>
      /\ f.id \in 1..Len(direct_messages)
      /\ IsParticipant(f.user_id, f.thread_id) =>
           /\ direct_messages[f.id].thread_id = f.thread_id
           /\ direct_messages[f.id].sender_id = f.user_id
           /\ direct_messages[f.id].content = f.content

\* A connection has received the new_message frame of a message accepted in
\* this run.
C2_Witness ==
  \E c \in Conns : \E k \in 1..Len(received[c]) :
    /\ received[c][k].type = "new_message"
    /\ received[c][k].id > Len(InitMessages)
    /\ IsParticipant(received[c][k].user_id, received[c][k].thread_id)

\* C3: a message frame for a thread the sender is not a participant of is
\* answered on that session with the error frame "Not a participant in this
\* thread", creates no message, and delivers no new_message frame to anyone,
\* whatever the session handled before.
C3_NonParticipantRejected ==
  [][\A c \in Conns :
       (/\ lastin'.conn = c
        /\ lastin'.frame.type = "message"
        /\ lastin'.frame.thread_id # None
        /\ lastin'.frame.content # None
        /\ ~IsParticipant(user_id[c], lastin'.frame.thread_id))
       => /\ Len(received'[c]) > Len(received[c])
          /\ received'[c][Len(received[c]) + 1] = ErrorFrame("Not a participant in this thread")
          /\ direct_messages' = direct_messages
          /\ pc'[c] \notin {"commit", "bstart", "bcast"}
          /\ \A x \in Conns : \A k \in 1..Len(received'[x]) :
               k > Len(received[x]) => received'[x][k].type # "new_message"]_vars

\* C9: a connection whose token must be rejected is closed with code 1008, is
\* never registered, never serves, and no frame is sent to it or taken from it;
\* this outcome is the same for every cause of rejection.
C9_RejectedNeverServes ==
  \A c \in Conns :
    badToken[c] =>
      /\ pc[c] = "closed"
      /\ closeCode[c] = 1008
      /\ ~registered[c]
      /\ c \notin Registry
      /\ received[c] = << >>
      /\ lastin.conn # c
      /\ user_id[c] = None

\* Two connections were rejected.
C9_Witness ==
  \E c, d \in Conns : c # d /\ badToken[c] /\ badToken[d] /\ closeCode[c] = 1008

\* C10: a closed session is not in the registry; one that was registered was
\* unregistered exactly once, whatever closed it, and no connection is ever
\* unregistered twice.
C10_UnregisteredOnce ==
  \A c \in Conns :
    /\ unregs[c] <= 1
    /\ pc[c] = "closed" =>
         /\ c \notin Registry
         /\ registered[c] => unregs[c] = 1
         /\ ~registered[c] => unregs[c] = 0

\* A registered session was closed by an exception raised while it fanned a
\* frame out, and another by the disconnect of its client.
C10_Witness ==
  \E c, d \in Conns :
    /\ pc[c] = "closed" /\ registered[c] /\ unregs[c] = 1 /\ live[c]
    /\ pc[d] = "closed" /\ registered[d] /\ unregs[d] = 1 /\ ~live[d]

\* The connections user u had registered on instance i when the last
\* broadcast started.
PubConns(i, u) == IF u \in DOMAIN pub.reg[i] THEN pub.reg[i][u] ELSE {}

\* The last broadcast_to_thread call has returned or raised.
PubOver == pub.by # None /\ pc[pub.by] # "bcast"

\* The last broadcast is the new_message of an accepted message frame.
PubAccepted ==
  /\ pub.frame.type = "new_message"
  /\ IsParticipant(pub.frame.user_id, pub.frame.thread_id)

\* C5: a message accepted from a user connected to one instance is delivered as
\* new_message to a participant whose only live connection is registered on
\* the other instance. Once the sender's fan-out is over and the bus holds
\* nothing, no step can deliver the frame any more, so it has been delivered.
C5_CrossInstanceDelivery ==
  (PubOver /\ PubAccepted /\ bus = << >>) =>
    \A x \in Conns :
      (/\ inst[x] # inst[pub.by]
       /\ user_id[x] \in pub.to
       /\ PubConns(inst[x], user_id[x]) = {x}
       /\ PubConns(inst[pub.by], user_id[x]) = {}
       /\ live[x]
       /\ x \in Registry)
      => Count(received[x], pub.frame) >= 1

\* C6: when a user addressed by an event had two live registered connections
\* as the event was published, each of the two that is still live and
\* registered when the fan-out is over has received the event exactly once.
C6_FanOutExactlyOnce ==
  PubOver =>
    \A u \in pub.to :
      LET at == PubConns(inst[pub.by], u) IN
      Cardinality(at) = 2 =>
        \A x \in at :
          (live[x] /\ x \in Registry)
            => Count(received[x], pub.frame) = pub.had[x] + 1

\* C7: for an accepted message frame in the thread of U1 and U2, the live
\* connection of the other participant has received exactly one new_message
\* frame with the frame's content, sender and thread and the id of the new
\* message, which no earlier message has.
C7_RecipientGetsOne ==
  (PubOver /\ PubAccepted /\ pub.frame.thread_id = "T1") =>
    /\ pub.frame.id \in 1..Len(direct_messages)
    /\ direct_messages[pub.frame.id] =
         [thread_id |-> "T1", sender_id |-> pub.frame.user_id,
          content |-> pub.frame.content, read_by |-> direct_messages[pub.frame.id].read_by]
    /\ \A x \in Conns :
         (/\ user_id[x] \in ParticipantsOf("T1") \ {pub.frame.user_id}
          /\ x \in PubConns(inst[pub.by], user_id[x])
          /\ live[x]
          /\ x \in Registry)
         => Count(received[x], pub.frame) = pub.had[x] + 1

C8_TwoPartyDedup ==
  [][\A r \in Rests :
       (/\ lastin'.conn = r
        /\ lastin'.frame.type = "create_thread"
        /\ Cardinality(response'[r].for) = 2
        /\ \E t \in threads : ParticipantsOf(t) = response'[r].for)
       => /\ response'[r].status = 201
          /\ response'[r].thread_id \in threads
          /\ ParticipantsOf(response'[r].thread_id) = response'[r].for
          /\ threads' = threads
          /\ thread_participants' = thread_participants]_vars

\* A frame is answered on session c with an error frame and the session goes on
\* serving: it awaits the next frame and stays registered.
ErrorAnswered(c) ==
  /\ Len(received'[c]) > Len(received[c])
  /\ received'[c][Len(received[c]) + 1].type = "error"
  /\ pc'[c] = "recv"
  /\ c \in UNION {active_connections'[inst[c]][u] : u \in DOMAIN active_connections'[inst[c]]}

\* An inbound frame that lacks a required field, or is a message for a thread
\* the sender is not a participant of.
Invalid(c, f) ==
  \/ f.type = "message" /\ (f.thread_id = None \/ f.content = None)
  \/ f.type = "message" /\ ~IsParticipant(user_id[c], f.thread_id)
  \/ f.type = "typing" /\ f.thread_id = None
  \/ f.type = "read_receipt" /\ (f.thread_id = None \/ f.message_id = 0)

\* C11: a frame rejected for a validation reason (required field missing, sender
\* not a participant, read_receipt for a message that does not exist) is answered
\* with an error frame on the same connection, and the session stays serving
\* and registered.
C11_ValidationErrorAnswered ==
  [][\A c \in Conns :
       /\ (lastin'.conn = c /\ Invalid(c, lastin'.frame)) => ErrorAnswered(c)
       /\ (/\ pc[c] = "rr_select"
           /\ pc'[c] # "rr_select"
           /\ FindMessage(cur[c].message_id, cur[c].thread_id) = 0) => ErrorAnswered(c)]_vars

\* C12: a frame of an unrecognized type, or a payload that is not a JSON object,
\* is answered with an error frame and the session stays serving and registered.
C12_UnknownFrameAnswered ==
  [][\A c \in Conns :
       (lastin'.conn = c /\ lastin'.frame.type \in {"bogus", "malformed"})
         => ErrorAnswered(c)]_vars

\* C13: a store call that raises while a frame is handled is contained to that
\* frame: the session goes on serving and stays registered.
C13_FailureContained ==
  [][\A c \in Conns :
       failed'[c] # failed[c]
         => /\ pc'[c] # "closed"
            /\ c \in UNION {active_connections'[inst[c]][u] :
                              u \in DOMAIN active_connections'[inst[c]]}]_vars

\* C14: when the commit of a message frame raised, no connection has received
\* a new_message frame for that frame (none with its sender, thread and content
\* that is not the frame of a stored message), and the bus carries none.
C14_UnsavedNotBroadcast ==
  \A c \in Conns :
    failed[c].at = "commit" =>
      /\ bus = << >>
      /\ \A x \in Conns : \A k \in 1..Len(received[x]) :
           LET f == received[x][k] IN
           (/\ f.type = "new_message"
            /\ f.user_id = user_id[c]
            /\ f.thread_id = failed[c].frame.thread_id
            /\ f.content = failed[c].frame.content)
           => /\ f.id \in 1..Len(direct_messages)
              /\ direct_messages[f.id].thread_id = f.thread_id
              /\ direct_messages[f.id].sender_id = f.user_id
              /\ direct_messages[f.id].content = f.content

\* The commit of a message frame raised while another participant of its
\* thread had a live registered connection.
C14_Witness ==
  \E c, x \in Conns :
    /\ failed[c].at = "commit"
    /\ x # c /\ live[x] /\ x \in Registry
    /\ IsParticipant(user_id[x], failed[c].frame.thread_id)

\* C15: with the bus down on the instance that handled an accepted message
\* frame, the message is in the store and, once the fan-out is over, every
\* connection of a participant that was registered on that instance when the
\* frame was handled, and still is, has received its new_message frame.
C15_OutageLocalDelivery ==
  (PubOver /\ PubAccepted /\ ~redis[inst[pub.by]]) =>
    /\ pub.frame.id \in 1..Len(direct_messages)
    /\ direct_messages[pub.frame.id].content = pub.frame.content
    /\ \A u \in pub.to : \A x \in PubConns(inst[pub.by], u) :
         (live[x] /\ x \in Registry) => Count(received[x], pub.frame) >= 1

\* C16: when a send of send_personal_message failed on a connection of the
\* user, the call for that user still returns to its caller, every other
\* connection of the user registered at call time, and still registered and
\* live, has been sent the payload, the failing connection is no longer
\* registered after the call and the others still are.
C16_SendFailureIsolated ==
  [][\A c \in Conns :
       (/\ pc[c] = "bcast"
        /\ iter[c].disconnected # {}
        /\ (pc'[c] # "bcast" \/ iter'[c].user # iter[c].user))
       => /\ pc'[c] # "closed"
          /\ \A x \in iter[c].snap \ iter[c].disconnected :
               (live[x] /\ x \in Registry) => Count(received'[x], bframe[c]) >= 1
          /\ iter[c].disconnected \cap Registry' = {}
          /\ (iter[c].snap \ iter[c].disconnected) \cap Registry \subseteq Registry']_vars

\* C17: a register or unregister of user U that runs at a suspension point of a
\* deliver to U does not make the deliver fail: no step of a session that is
\* fanning a frame out ends that session.
C17_DeliverSurvivesMutation ==
  [][\A c \in Conns : pc[c] = "bcast" => pc'[c] # "closed"]_vars

\* C18: every user key of the registry maps to a non-empty set of connections;
\* a step that unregisters the last connection of a user removes the user's
\* entry, and the disconnect of a session whose connection is not registered
\* leaves the registry as it is.
C18_NoEmptyEntries ==
  /\ [](\A i \in Instances : \A u \in DOMAIN active_connections[i] :
          active_connections[i][u] # {})
  /\ [][\A c \in Conns :
          /\ (/\ c \in Registry
              /\ c \notin Registry'
              /\ active_connections[inst[c]][user_id[c]] = {c})
             => user_id[c] \notin DOMAIN active_connections'[inst[c]]
          /\ (/\ pc[c] = "recv"
              /\ pc'[c] = "closed"
              /\ c \notin Registry)
             => active_connections' = active_connections]_vars

\* The clean-up of a failed send unregistered the last connection of a user,
\* whose entry is gone, while that connection's session still awaits a frame:
\* the disconnect of its finally clause finds it not registered.
C18_Witness ==
  \E d \in Conns :
    /\ pc[d] = "recv" /\ ~live[d]
    /\ registered[d] /\ unregs[d] = 1
    /\ d \notin Registry
    /\ \A i \in Instances : user_id[d] \notin DOMAIN active_connections[i]

\* C19: delivery has no queuing or replay: a user without an entry is passed
\* over with nothing sent and nothing stored, and a send of an in-progress
\* send_personal_message goes only to a connection that was registered for the
\* user when the call started.
C19_NoLateDelivery ==
  [][\A c \in Conns :
       /\ (pc[c] \in {"bstart", "bcast"} /\ pc'[c] \in {"bcast", "recv"})
          => LET q == IF pc[c] = "bstart" THEN participant_ids[c] ELSE bq[c]
                 skipped == {q[k] : k \in 1..Len(q)}
                              \ ({bq'[c][k] : k \in 1..Len(bq'[c])} \cup {iter'[c].user})
             IN skipped # {}
                => /\ \A x \in Conns : user_id[x] \in skipped => received'[x] = received[x]
                   /\ bus' = bus
                   /\ direct_messages' = direct_messages
       /\ (/\ pc[c] = "bcast"
           /\ pc'[c] = "bcast"
           /\ iter'[c].user = iter[c].user)
          => (iter'[c].visited \ iter[c].visited) \subseteq iter[c].snap]_vars

\* C20: every accepted message bumps its thread's updated_at: a step that
\* stores a new message, for a message frame of the WebSocket or a send-message
\* request, leaves the updated_at of the message's thread strictly later than
\* it was, so that the update is made before any fan-out of the message.
C20_UpdatedAtBumped ==
  [][Len(direct_messages') > Len(direct_messages)
       => LET t == direct_messages'[Len(direct_messages')].thread_id
          IN updated_at'[t] > updated_at[t]]_vars

\* C21: a typing frame with a thread_id is delivered as a typing event to the
\* connections of every participant of the thread other than the sender, is
\* never delivered to a connection of the sender, and no step of its handling
\* changes the store.
C21_TypingNotToSender ==
  \A c \in Conns : \A k \in 1..Len(received[c]) :
    received[c][k].type = "typing" => received[c][k].user_id # user_id[c]

C21_TypingStoreUntouched ==
  \A c \in Conns :
    \/ lastin'.conn = c /\ lastin'.frame.type = "typing"
    \/ /\ pc[c] \in {"bstart", "bcast"}
       /\ bframe[c].type = "typing"
       /\ pc'[c] # pc[c] \/ received' # received
    => storeVars' = storeVars

C21_TypingDelivered ==
  /\ [](/\ C21_TypingNotToSender
        /\ (PubOver /\ pub.frame.type = "typing") =>
             \A u \in ParticipantsOf(pub.frame.thread_id) \ {pub.frame.user_id} :
               \A x \in PubConns(inst[pub.by], u) :
                 (live[x] /\ x \in Registry)
                   => Count(received[x], pub.frame) >= pub.had[x] + 1)
  /\ [][C21_TypingStoreUntouched]_vars

\* The stored messages with the read_by of message m left out of the comparison.
SameButReadBy(m) ==
  /\ Len(direct_messages') = Len(direct_messages)
  /\ \A k \in 1..Len(direct_messages) :
       /\ direct_messages'[k].thread_id = direct_messages[k].thread_id
       /\ direct_messages'[k].sender_id = direct_messages[k].sender_id
       /\ direct_messages'[k].content = direct_messages[k].content
       /\ k # m => direct_messages'[k].read_by = direct_messages[k].read_by
  /\ <<thread_participants, threads, updated_at>>' = <<thread_participants, threads, updated_at>>

\* C22: the first read_receipt of U for an existing message adds U to the stored
\* read_by; a repeated one writes nothing, yet is broadcast as a read_receipt
\* event to all participants of the thread, the sender of the receipt
\* included; a receipt changes no stored field but read_by of the named message.
C22_ReceiptIdempotentOnStore ==
  [][\A c \in Conns :
       LET f == cur[c]
           m == FindMessage(f.message_id, f.thread_id)
       IN
       /\ (pc[c] = "rr_commit" /\ pc'[c] = "bstart")
          => /\ user_id[c] \in direct_messages'[m].read_by
             /\ SameButReadBy(m)
       /\ (/\ pc[c] = "rr_select" /\ pc'[c] # "rr_select"
           /\ m # 0
           /\ user_id[c] \in direct_messages[m].read_by)
          => /\ storeVars' = storeVars
             /\ pc'[c] = "bstart"
             /\ bframe'[c] = ReceiptFrame(f.message_id, f.thread_id, user_id[c])
             /\ {participant_ids'[c][k] : k \in 1..Len(participant_ids'[c])}
                  = ParticipantsOf(f.thread_id)]_vars

\* C23: a ping frame is answered with exactly one pong frame on the connection
\* it came from and has no other effect: the store, the registry, the bus and
\* the frames of every other connection are unchanged, and the session awaits
\* the next frame.
C23_PingPong ==
  [][\A c \in Conns :
       (lastin'.conn = c /\ lastin'.frame.type = "ping")
       => /\ received'[c] = Append(received[c], PongFrame)
          /\ \A x \in Conns \ {c} : received'[x] = received[x]
          /\ storeVars' = storeVars
          /\ active_connections' = active_connections
          /\ bus' = bus
          /\ pc'[c] = "recv"]_vars

\* A ping was answered on a connection while another connection was registered.
C23_Witness ==
  \E c, x \in Conns :
    /\ lastin.conn = c /\ lastin.frame.type = "ping"
    /\ received[c][Len(received[c])] = PongFrame
    /\ x # c /\ x \in Registry /\ c \in Registry

\* C24: within one connection frames are handled one after the other: a frame
\* is taken from the socket only when the handler of the frame before it has
\* finished (nothing awaits a store call or a send for this connection), and
\* every message a connection persists is appended after all messages stored
\* before, so its messages are created in the order of their frames.
C24_FramesInOrder ==
  [][\A c \in Conns :
       /\ (lastin'.conn = c /\ lastin'.frame # NoInFrame)
          => /\ pc[c] = "recv"
             /\ cur[c] = NoInFrame
             /\ iter[c] = NoIter
       /\ (pc[c] = "commit" /\ pc'[c] = "bstart")
          => /\ direct_messages' =
                  Append(direct_messages,
                         [thread_id |-> cur[c].thread_id, sender_id |-> user_id[c],
                          content |-> cur[c].content, read_by |-> {user_id[c]}])
             /\ new_message'[c] = Len(direct_messages')
             /\ new_message'[c] > new_message[c]]_vars

\* One connection has persisted two messages with different contents, the
\* second while no other connection of its user existed.
C24_Witness ==
  \E c \in Conns :
    /\ Len(direct_messages) = 2
    /\ direct_messages[1].sender_id = user_id[c]
    /\ direct_messages[2].sender_id = user_id[c]
    /\ direct_messages[1].content # direct_messages[2].content
    /\ new_message[c] = 2
    /\ \A d \in Conns \ {c} : user_id[d] # user_id[c]

\* Connection x is registered and live for a recipient listed in a payload of
\* the bus and has not received the payload's event.
OwedTo(x) ==
  /\ x \in Registry
  /\ live[x]
  /\ \E k \in 1..Len(bus) :
       /\ user_id[x] \in bus[k].user_ids
       /\ Count(received[x], bus[k].frame) = 0

\* C25: each instance runs a subscription loop from its start-up that, for
\* every payload of the bus, delivers it to each listed recipient: a connection
\* that is registered and live for a listed recipient while the payload is on
\* the bus eventually receives the payload's event, unless it unregisters.
C25_BusPayloadDelivered ==
  \A x \in Conns : OwedTo(x) ~> ~OwedTo(x)

\* C26: bus consumption does not end with a bad payload: a payload that is on
\* the bus behind one that cannot be decoded is eventually consumed.
C26_BusConsumptionGoesOn ==
  \A p \in BusPayloads :
    [](bus = <<Undecodable, p>> => <>(\A k \in 1..Len(bus) : bus[k] # p))

\* C27: a verified session is registered and then sent the connection frame
\* with its user identity: the first frame a connection receives is that
\* frame, it is sent when the connection is in the registry, and no inbound
\* frame of the connection is handled before it was sent.
C27_AckFirst ==
  /\ [](\A c \in Conns :
          received[c] # << >> => /\ received[c][1] = ConnectionFrame(user_id[c])
                                 /\ registered[c])
  /\ [][\A c \in Conns :
          /\ (received[c] = << >> /\ received'[c] # << >>)
             => /\ received'[c] = <<ConnectionFrame(user_id'[c])>>
                /\ c \in Registry'
          /\ (lastin'.conn = c /\ lastin'.frame # NoInFrame)
             => /\ received[c] # << >>
                /\ received[c][1].type = "connection"]_vars

\* A connection received its connection frame and then an event another
\* user's session fanned out.
C27_Witness ==
  \E c, d \in Conns :
    /\ d # c
    /\ Len(received[c]) >= 2
    /\ received[c][1] = ConnectionFrame(user_id[c])
    /\ received[c][2].type \in ThreadFrameTypes
    /\ received[c][2].user_id = user_id[d]
    /\ user_id[d] # user_id[c]

\* C28: no connection is registered under more than one user: a connection in
\* the set of user u on instance i is a connection of instance i whose token was
\* verified as u.
C28_OneUserPerConnection ==
  \A i \in Instances : \A u \in DOMAIN active_connections[i] :
    \A c \in active_connections[i][u] :
      /\ user_id[c] = u
      /\ inst[c] = i
      /\ \A v \in DOMAIN active_connections[i] \ {u} : c \notin active_connections[i][v]

\* Connections of two different users are registered on one instance.
C28_Witness ==
  \E c, d \in Conns :
    /\ c \in Registry /\ d \in Registry
    /\ inst[c] = inst[d]
    /\ user_id[c] # user_id[d]
    /\ active_connections[inst[c]][user_id[c]] = {c}
    /\ active_connections[inst[d]][user_id[d]] = {d}

\* The condition under which a message of user u for thread t with content x
\* is accepted.
Accepts(u, t, x) == t # None /\ x # None /\ IsParticipant(u, t)

\* The store after the step holds one more message, of sender u in thread t
\* with content x and read_by = {u}, and the updated_at of t, and of no other
\* thread, is later than before.
SameEffect(u, t, x) ==
  /\ direct_messages' = InsertMessage(direct_messages, t, u, x)
  /\ direct_messages'[Len(direct_messages')].read_by = {u}
  /\ updated_at'[t] > updated_at[t]
  /\ \A o \in DOMAIN updated_at \ {t} : updated_at'[o] = updated_at[o]
  /\ <<thread_participants, threads>>' = <<thread_participants, threads>>

\* C29: the send-message request and the message frame of the WebSocket are
\* equivalent persistence paths: both accept exactly when the caller is a
\* participant and the content is not empty, and an accepted message has the
\* same effect on the store by either path.
C29_PathsEquivalent ==
  [][/\ \A c \in Conns :
          /\ (lastin'.conn = c /\ lastin'.frame.type = "message")
             => (pc'[c] = "commit"
                   <=> Accepts(user_id[c], lastin'.frame.thread_id, lastin'.frame.content))
          /\ (pc[c] = "commit" /\ pc'[c] = "bstart")
             => SameEffect(user_id[c], cur[c].thread_id, cur[c].content)
     /\ \A r \in Rests :
          /\ (lastin'.conn = r /\ lastin'.frame.type = "send_message")
             => /\ rest'[r].op = "send_message"
                     => Accepts(rest'[r].user, lastin'.frame.thread_id, lastin'.frame.content)
                /\ rest'[r].op # "send_message"
                     => /\ response'[r].status \in {403, 422}
                        /\ \A u \in response'[r].for :
                             ~Accepts(u, lastin'.frame.thread_id, lastin'.frame.content)
          /\ (rest[r].op = "send_message" /\ rest'[r].op # "send_message")
             => SameEffect(rest[r].user, rest[r].thread_id, rest[r].content)]_vars

\* C30: every new_message frame a connection has received describes a message
\* of the store: the message with the frame's id exists and has the frame's
\* thread, sender and content.
C30_NoPhantomMessage ==
  \A c \in Conns : \A k \in 1..Len(received[c]) :
    LET f == received[c][k] IN
    f.type = "new_message" =>
      /\ f.id \in 1..Len(direct_messages)
      /\ direct_messages[f.id].thread_id = f.thread_id
      /\ direct_messages[f.id].sender_id = f.user_id
      /\ direct_messages[f.id].content = f.content

\* What the handler of session c does with inbound frame f in the current
\* state: the error it answers, whether the session ends, whether the store is
\* written, the event it fans out and the users it fans it out to.
Outcome(answer, ends, stores, frame, to) ==
  [answer |-> answer, ends |-> ends, stores |-> stores, frame |-> frame, to |-> to]

\* websocket.py:66-132, the branch of a "message" frame.
MessageOutcome(c, f) ==
  LET u == user_id[c] IN
  IF f.thread_id = None \/ f.content = None
  THEN Outcome("Missing thread_id or content", FALSE, FALSE, NoFrame, {})
  ELSE IF ~IsParticipant(u, f.thread_id)
  THEN IF new_message[c] = 0 \/ participant_ids[c] = Unbound
       THEN Outcome("Not a participant in this thread", TRUE, FALSE, NoFrame, {})
       ELSE Outcome("Not a participant in this thread", FALSE, FALSE,
                    NewMessageFrame(new_message[c], f.thread_id, u, f.content),
                    {participant_ids[c][k] : k \in 1..Len(participant_ids[c])})
  ELSE Outcome(None, FALSE, TRUE,
               NewMessageFrame(Len(direct_messages) + 1, f.thread_id, u, f.content),
               ParticipantsOf(f.thread_id))

\* websocket.py:159-199, the branch of a "read_receipt" frame.
ReceiptOutcome(c, f) ==
  LET u == user_id[c]
      m == FindMessage(f.message_id, f.thread_id)
      frame == ReceiptFrame(f.message_id, f.thread_id, u)
  IN
  IF f.message_id = 0 \/ f.thread_id = None
  THEN Outcome(None, FALSE, FALSE, NoFrame, {})
  ELSE IF m # 0
  THEN Outcome(None, FALSE, u \notin direct_messages[m].read_by, frame,
               ParticipantsOf(f.thread_id))
  ELSE IF participant_ids[c] = Unbound
  THEN Outcome(None, TRUE, FALSE, NoFrame, {})
  ELSE Outcome(None, FALSE, FALSE, frame,
               {participant_ids[c][k] : k \in 1..Len(participant_ids[c])})

\* C31: the handling of an inbound frame does not depend on the frames the
\* session handled before: two serving sessions of one user on one instance
\* have the same outcome for every message and read_receipt frame.
C31_HistoryIndependent ==
  \A c, d \in Conns :
    (/\ c # d
     /\ pc[c] = "recv" /\ pc[d] = "recv"
     /\ live[c] /\ live[d]
     /\ user_id[c] = user_id[d]
     /\ inst[c] = inst[d])
    => /\ \A f \in MessageFrames : MessageOutcome(c, f) = MessageOutcome(d, f)
       /\ \A f \in ReceiptFrames : ReceiptOutcome(c, f) = ReceiptOutcome(d, f)

\* C32: every serving session is registered: from its acknowledgment until it
\* is closed, whether it awaits a frame or handles one, its connection is in
\* the registry set of its user.
C32_ServingIsRegistered ==
  \A c \in Conns :
    (registered[c] /\ pc[c] \in {"recv", "commit", "rr_select", "rr_commit", "bstart", "bcast"})
      => /\ user_id[c] \in DOMAIN active_connections[inst[c]]
         /\ c \in active_connections[inst[c]][user_id[c]]

C34_EventsFromParticipants ==
  \A c \in Conns : \A k \in 1..Len(received[c]) :
    LET f == received[c][k] IN
    f.type \in {"typing", "read_receipt"} => IsParticipant(f.user_id, f.thread_id)

\* C35: a create-thread request for two existing users is answered with a
\* thread whose participants are exactly these two: a thread that holds both
\* and others beside them is not returned, and the request does not fail when
\* several threads hold both.
C35_TwoPartyExact ==
  [][\A r \in Rests :
       (/\ \/ lastin'.conn = r /\ lastin'.frame.type = "create_thread" /\ rest'[r].op = None
           \/ rest[r].op = "create_thread" /\ rest'[r].op = None
        /\ Cardinality(response'[r].for) = 2
        /\ response'[r].for \subseteq UserIds)
       => /\ response'[r].status = 201
          /\ response'[r].thread_id \in threads'
          /\ {x[2] : x \in {y \in thread_participants' : y[1] = response'[r].thread_id}}
               = response'[r].for]_vars

\* C36: no two distinct threads have the same two participants and no others,
\* whatever the interleaving of create-thread requests.
C36_OneThreadPerPair ==
  \A t1 \in threads, t2 \in threads :
    (t1 # t2 /\ Cardinality(ParticipantsOf(t1)) = 2)
      => ParticipantsOf(t1) # ParticipantsOf(t2)

\* The connections that are or were bound to user u.
ConnsOf(u) == {c \in Conns : user_id[c] = u}

\* C37: when two messages were accepted on one connection, a connection that
\* has received the new_message events of both has received the event of the
\* earlier message first. Messages are attributed to a connection through
\* their sender when that user has had one connection only; ids are positions
\* of the store, so the earlier message has the smaller id.
C37_RecipientFifo ==
  \A x \in Conns : \A i \in 1..Len(received[x]) : \A j \in 1..Len(received[x]) :
    LET f == received[x][i]
        g == received[x][j]
    IN
    (/\ i < j
     /\ f.type = "new_message" /\ g.type = "new_message"
     /\ f.id \in 1..Len(direct_messages) /\ g.id \in 1..Len(direct_messages)
     /\ direct_messages[f.id].sender_id = direct_messages[g.id].sender_id
     /\ Cardinality(ConnsOf(direct_messages[f.id].sender_id)) = 1)
    => f.id <= g.id

\* A connection other than the sender's has received the events of two
\* messages that one connection, the only one of its user, had accepted.
C37_Witness ==
  \E c \in Conns : \E x \in Conns \ {c} :
    /\ Len(direct_messages) = 2
    /\ direct_messages[1].sender_id = user_id[c]
    /\ direct_messages[2].sender_id = user_id[c]
    /\ ConnsOf(user_id[c]) = {c}
    /\ new_message[c] = 2
    /\ \E i \in 1..Len(received[x]) : \E j \in 1..Len(received[x]) :
         /\ i < j
         /\ received[x][i].type = "new_message" /\ received[x][i].id = 1
         /\ received[x][j].type = "new_message" /\ received[x][j].id = 2

====
